---- MODULE Spec2Model ----
(***************************************************************************)
(* Model of mkdocs_extra_sass_plugin/plugin.py: the ExtraSassPlugin hooks  *)
(* (on_config, on_post_page, on_serve), the memoised entry point, the      *)
(* entry locator _SassEntry.search_entry_point and the artifact writer     *)
(* _AvailableSassEntry.save_to.                                            *)
(*                                                                         *)
(* The file system the plugin reads (the styles directory) and writes (the *)
(* stylesheet directory under site_dir), the process umask and the host's  *)
(* configuration are state.  The external compiler, the temporary-file     *)
(* name generator and the operating system's failures are nondeterministic *)
(* inputs of the actions.                                                  *)
(***************************************************************************)
EXTENDS Integers, Sequences, FiniteSets, TLC

VARIABLES
    entry_point,    \* ExtraSassPlugin.__entry_point: None or the memoised entry
    config,         \* the host's configuration, as passed to every hook
    styles,         \* the styles directory 'extra_sass' in the working directory
    site,           \* <site_dir>/assets/stylesheets: temp-file name -> file
    umask,          \* the process umask
    searchCount,    \* calls of search_entry_point since the last on_config
    saveCount,      \* calls of save_to since the last on_config
    failures,       \* calls of save_to that failed since the last on_config
    prevPath,       \* relative_path of the entry dropped by the last on_config
    last,           \* the last call made on the plugin and what it returned
    threads,        \* on_post_page calls in flight when the host renders in parallel
    linked          \* (page.url, href) of the links injected since the last on_config

vars == <<entry_point, config, styles, site, umask, searchCount, saveCount,
          failures, prevPath, last, threads, linked>>

----------------------------------------------------------------------------
(* Bounds *)

\* number of distinct names the temporary-file generator can produce
MaxFiles == 2

\* accesses that compute the entry within one cycle (more than one only
\* when a strict-mode failure left the entry unset)
MaxAttempts == 2

----------------------------------------------------------------------------
(* Values *)

None == [kind |-> "None"]

Oct(a, b, c) == a * 64 + b * 8 + c

RECURSIVE BitAnd(_, _, _)
\* bitwise and of the low n bits of x and y
BitAnd(x, y, n) ==
    IF n = 0 THEN 0
    ELSE 2 * BitAnd(x \div 2, y \div 2, n - 1) + ((x % 2) * (y % 2))

\* ~x on the nine permission bits
BitNot(x) == Oct(7, 7, 7) - x

\* one path component; rnd is the random part of a temporary-file name
Seg(s) == [prefix |-> s, rnd |-> 0, suffix |-> ""]

\* a Python str-or-None holding a path: None, "" or the components
PyNone == [isNone |-> TRUE, parts |-> <<>>]
PyStr(parts) == [isNone |-> FALSE, parts |-> parts]

\* Python truthiness of a str-or-None
Truthy(p) == ~p.isNone /\ p.parts # <<>>

----------------------------------------------------------------------------
(* The styles directory and _SassEntry.search_entry_point *)

_styles_dir == Seg("extra_sass")

_style_filenames == <<"style.css.sass", "style.sass", "style.css.scss", "style.scss">>

RecognizedNames == {_style_filenames[i] : i \in 1..Len(_style_filenames)}

\* what a name in the styles directory is: nothing, a regular file, a directory
Kinds == {"none", "file", "dir"}

\* states of ./extra_sass: not a directory (absent, or a regular file), or a
\* directory holding any mix of the recognized names and possibly other files
StylesStates ==
    {[isdir |-> FALSE, files |-> [n \in RecognizedNames |-> "none"], others |-> FALSE]}
    \cup [isdir : {TRUE}, files : [RecognizedNames -> Kinds], others : BOOLEAN]

isdir(fs) == fs.isdir

\* os.path.exists in the place of os.path.isfile
exists(fs, f) == fs.isdir /\ f \in DOMAIN fs.files /\ fs.files[f] # "none"

\* os.path.isfile(os.path.join(d, f)) for the styles directory d
isfile(fs, f) == fs.isdir /\ f \in DOMAIN fs.files /\ fs.files[f] = "file"

_NoSassEntry == [kind |-> "NoEntry", dirname |-> Seg(""), filename |-> "",
                 relative_path |-> PyStr(<<>>)]

_AvailableSassEntry(d, f) == [kind |-> "Available", dirname |-> d, filename |-> f,
                              relative_path |-> PyNone]

is_available(e) == e.kind = "Available"

relative_path(e) == e.relative_path

RECURSIVE search_last_from(_, _)
\* the loop of search_entry_point keeping the last match, not the first
search_last_from(fs, i) ==
    IF i > Len(_style_filenames) THEN _NoSassEntry
    ELSE LET later == search_last_from(fs, i + 1)
         IN IF is_available(later) THEN later
            ELSE IF isfile(fs, _style_filenames[i])
                 THEN _AvailableSassEntry(_styles_dir, _style_filenames[i])
                 ELSE _NoSassEntry

RECURSIVE search_from(_, _)
\* the loop of search_entry_point, from position i of _style_filenames
search_from(fs, i) ==
    IF i > Len(_style_filenames) THEN _NoSassEntry
    ELSE IF isfile(fs, _style_filenames[i])
         THEN _AvailableSassEntry(_styles_dir, _style_filenames[i])
         ELSE search_from(fs, i + 1)

search_entry_point(fs) ==
    IF isdir(fs) THEN search_from(fs, 1) ELSE _NoSassEntry


----------------------------------------------------------------------------
(* The stylesheet directory under site_dir and _AvailableSassEntry.save_to *)

NoFile == [css |-> "absent", map |-> "none", mode |-> 0]

\* the random parts NamedTemporaryFile can draw
TempNames == 1..MaxFiles

\* the names exclusive creation can still allocate
FreeNames(st) == {k \in TempNames : st[k].css = "absent"}

\* 'extra-style.' + random part + '.min.css'
CssName(k) == [prefix |-> "extra-style.", rnd |-> k, suffix |-> ".min.css"]

\* os.path.join("assets", "stylesheets")
dest_dir == <<Seg("assets"), Seg("stylesheets")>>

\* where save_to can fail, in the order of its statements, and "ok"
Stages == <<"makedirs", "tempfile", "compile", "map_open", "map_write", "ok">>

StageNo(s) == CHOOSE i \in 1..Len(Stages) : Stages[i] = s

\* the statement that fails at stage f lies after the one of stage s
Passed(f, s) == StageNo(f) > StageNo(s)

\* the outcomes of a creation that is not exclusive: any name can come back
SaveInputsAnyName(st) ==
    [k : {0}, stage : {"makedirs", "tempfile"}]
    \cup [k : TempNames, stage : {"compile", "map_open", "map_write", "ok"}]

\* the outcomes the environment can give one save_to call: every failure
\* after the allocation needs a name the exclusive creation can take
SaveInputs(st) ==
    [k : {0}, stage : {"makedirs", "tempfile"}]
    \cup [k : FreeNames(st), stage : {"compile", "map_open", "map_write", "ok"}]

\* os.umask(new): sets the process umask and returns the previous one
os_umask(cur, new) == [ret |-> cur, umask |-> new]

\* the mode mkstemp gives a new file
TempMode(u) == BitAnd(Oct(6, 0, 0), BitNot(u), 9)

\* fix_umask reading the umask and leaving the file's mode as it is
fix_umask_without_chmod(u, mode) ==
    LET first == os_umask(u, Oct(6, 6, 6))
        second == os_umask(first.umask, first.ret)
    IN [umask |-> second.umask, mode |-> mode]

\* fix_umask without the second os.umask call
fix_umask_not_restoring(u, mode) ==
    LET first == os_umask(u, Oct(6, 6, 6))
    IN [umask |-> first.umask, mode |-> BitAnd(Oct(6, 6, 6), BitNot(first.ret), 9)]

\* fix_umask(temp_file): the process umask and the file's mode afterwards
fix_umask(u, mode) ==
    LET first == os_umask(u, Oct(6, 6, 6))
        second == os_umask(first.umask, first.ret)
    IN [umask |-> second.umask, mode |-> BitAnd(Oct(6, 6, 6), BitNot(first.ret), 9)]

\* save_to removing the CSS file when a later statement fails
save_to_cleaning_up(e, st, u, inp) ==
    IF ~is_available(e)
    THEN [ok |-> FALSE, assertion |-> TRUE, entry |-> e, site |-> st, umask |-> u]
    ELSE IF ~Passed(inp.stage, "tempfile")
    THEN [ok |-> FALSE, assertion |-> FALSE, entry |-> e, site |-> st, umask |-> u]
    ELSE
      LET fixed == fix_umask(u, TempMode(u))
          file == [css |-> "written", map |-> "written", mode |-> fixed.mode]
      IN [ok |-> inp.stage = "ok", assertion |-> FALSE,
          entry |-> IF inp.stage = "ok"
                    THEN [e EXCEPT !.relative_path =
                              PyStr(Append(dest_dir, CssName(inp.k)))]
                    ELSE e,
          site |-> IF inp.stage = "ok" THEN [st EXCEPT ![inp.k] = file] ELSE st,
          umask |-> fixed.umask]

\* save_to returning without having written the source map
save_to_without_map(e, st, u, inp) ==
    IF ~is_available(e)
    THEN [ok |-> FALSE, assertion |-> TRUE, entry |-> e, site |-> st, umask |-> u]
    ELSE IF ~Passed(inp.stage, "tempfile")
    THEN [ok |-> FALSE, assertion |-> FALSE, entry |-> e, site |-> st, umask |-> u]
    ELSE
      LET fixed == fix_umask(u, TempMode(u))
          css == IF Passed(inp.stage, "compile") THEN "written" ELSE "empty"
          file == [css |-> css, map |-> "none", mode |-> fixed.mode]
      IN [ok |-> inp.stage = "ok", assertion |-> FALSE,
          entry |-> IF inp.stage = "ok"
                    THEN [e EXCEPT !.relative_path =
                              PyStr(Append(dest_dir, CssName(inp.k)))]
                    ELSE e,
          site |-> [st EXCEPT ![inp.k] = file],
          umask |-> fixed.umask]

\* save_to recording the relative path before the source map is written
save_to_path_first(e, st, u, inp) ==
    IF ~is_available(e)
    THEN [ok |-> FALSE, assertion |-> TRUE, entry |-> e, site |-> st, umask |-> u]
    ELSE IF ~Passed(inp.stage, "tempfile")
    THEN [ok |-> FALSE, assertion |-> FALSE, entry |-> e, site |-> st, umask |-> u]
    ELSE
      LET fixed == fix_umask(u, TempMode(u))
          css == IF Passed(inp.stage, "compile") THEN "written" ELSE "empty"
          map == IF inp.stage = "ok" THEN "written"
                 ELSE IF inp.stage = "map_write" THEN "partial"
                 ELSE "none"
          file == [css |-> css, map |-> map, mode |-> fixed.mode]
      IN [ok |-> inp.stage = "ok", assertion |-> FALSE,
          entry |-> IF Passed(inp.stage, "compile")
                    THEN [e EXCEPT !.relative_path =
                              PyStr(Append(dest_dir, CssName(inp.k)))]
                    ELSE e,
          site |-> [st EXCEPT ![inp.k] = file],
          umask |-> fixed.umask]

\* save_to(site_dir, dest_dir) on entry e, the environment choosing the
\* temporary name inp.k and the statement inp.stage that fails, if any
save_to(e, st, u, inp) ==
    IF ~is_available(e)
    THEN \* _SassEntry.save_to: raise AssertionError('DO NOT CALL HERE')
         [ok |-> FALSE, assertion |-> TRUE, entry |-> e, site |-> st, umask |-> u]
    ELSE IF ~Passed(inp.stage, "tempfile")
    THEN [ok |-> FALSE, assertion |-> FALSE, entry |-> e, site |-> st, umask |-> u]
    ELSE
      LET fixed == fix_umask(u, TempMode(u))
          css == IF Passed(inp.stage, "compile") THEN "written" ELSE "empty"
          map == IF inp.stage = "ok" THEN "written"
                 ELSE IF inp.stage = "map_write" THEN "partial"
                 ELSE "none"
          file == [css |-> css, map |-> map, mode |-> fixed.mode]
      IN [ok |-> inp.stage = "ok", assertion |-> FALSE,
          entry |-> IF inp.stage = "ok"
                    THEN [e EXCEPT !.relative_path =
                              PyStr(Append(dest_dir, CssName(inp.k)))]
                    ELSE e,
          site |-> [st EXCEPT ![inp.k] = file],
          umask |-> fixed.umask]

----------------------------------------------------------------------------
(* ExtraSassPlugin._build_entry and ExtraSassPlugin._entry_point *)

\* _build_entry re-raising whatever the strict flag says
_build_entry_always_raises(cfg, fs, st, u, inp) ==
    LET found == search_entry_point(fs)
        saved == save_to(found, st, u, inp)
    IN IF ~is_available(found)
       THEN [raised |-> FALSE, failed |-> FALSE, assertion |-> FALSE,
             entry |-> found, site |-> st, umask |-> u,
             searched |-> 1, saved |-> 0]
       ELSE [raised |-> ~saved.ok, failed |-> ~saved.ok,
             assertion |-> saved.assertion, entry |-> saved.entry,
             site |-> saved.site, umask |-> saved.umask,
             searched |-> 1, saved |-> 1]

\* _build_entry swallowing the failure whatever the strict flag says
_build_entry_never_raises(cfg, fs, st, u, inp) ==
    LET found == search_entry_point(fs)
        saved == save_to(found, st, u, inp)
    IN IF ~is_available(found)
       THEN [raised |-> FALSE, failed |-> FALSE, assertion |-> FALSE,
             entry |-> found, site |-> st, umask |-> u,
             searched |-> 1, saved |-> 0]
       ELSE [raised |-> FALSE, failed |-> ~saved.ok,
             assertion |-> saved.assertion, entry |-> saved.entry,
             site |-> saved.site, umask |-> saved.umask,
             searched |-> 1, saved |-> 1]

\* _build_entry calling save_to without asking is_available
_build_entry_unguarded(cfg, fs, st, u, inp) ==
    LET found == search_entry_point(fs)
        saved == save_to(found, st, u, inp)
    IN [raised |-> ~saved.ok /\ cfg.strict, failed |-> ~saved.ok,
        assertion |-> saved.assertion, entry |-> saved.entry,
        site |-> saved.site, umask |-> saved.umask,
        searched |-> 1, saved |-> 1]

\* _build_entry(config): raised is the exception leaving it in strict mode
_build_entry(cfg, fs, st, u, inp) ==
    LET found == search_entry_point(fs)
        saved == save_to(found, st, u, inp)
    IN IF ~is_available(found)
       THEN [raised |-> FALSE, failed |-> FALSE, assertion |-> FALSE,
             entry |-> found, site |-> st, umask |-> u,
             searched |-> 1, saved |-> 0]
       ELSE [raised |-> ~saved.ok /\ cfg.strict, failed |-> ~saved.ok,
             assertion |-> saved.assertion, entry |-> saved.entry,
             site |-> saved.site, umask |-> saved.umask,
             searched |-> 1, saved |-> 1]

\* _entry_point that builds the entry without storing it
_entry_point_unmemoized(ep, cfg, fs, st, u, inp) ==
    IF ep = None
    THEN LET built == _build_entry(cfg, fs, st, u, inp)
         IN [raised |-> built.raised, failed |-> built.failed,
             assertion |-> built.assertion,
             entry |-> IF built.raised THEN None ELSE built.entry,
             memo |-> ep,
             site |-> built.site, umask |-> built.umask,
             searched |-> built.searched, saved |-> built.saved]
    ELSE [raised |-> FALSE, failed |-> FALSE, assertion |-> FALSE,
          entry |-> ep, memo |-> ep, site |-> st, umask |-> u,
          searched |-> 0, saved |-> 0]

\* _entry_point(config): memo is the value of __entry_point afterwards
_entry_point(ep, cfg, fs, st, u, inp) ==
    IF ep = None
    THEN LET built == _build_entry(cfg, fs, st, u, inp)
         IN [raised |-> built.raised, failed |-> built.failed,
             assertion |-> built.assertion,
             entry |-> IF built.raised THEN None ELSE built.entry,
             memo |-> IF built.raised THEN ep ELSE built.entry,
             site |-> built.site, umask |-> built.umask,
             searched |-> built.searched, saved |-> built.saved]
    ELSE [raised |-> FALSE, failed |-> FALSE, assertion |-> FALSE,
          entry |-> ep, memo |-> ep, site |-> st, umask |-> u,
          searched |-> 0, saved |-> 0]

----------------------------------------------------------------------------
(* Pages and ExtraSassPlugin.on_post_page *)

\* the longest head of a page handed to on_post_page
\* on_post_page calls the host may have in flight at once
MaxCalls == 2

MaxHead == 2

NoHref == [ups |-> 0, parts |-> <<>>]

Title == [tag |-> "title", rel |-> "", href |-> NoHref]

\* soup.new_tag('link') with the attributes href and rel
Link(href) == [tag |-> "link", rel |-> "stylesheet", href |-> href]

\* a document: raw is the text as the host rendered it (FALSE once it went
\* through the parser and str()), head the children of <head>, if there is one
Document(hasHead, head) == [raw |-> TRUE, hasHead |-> hasHead, head |-> head]

\* the pages the host renders: page.url, as the directory components the
\* page lives in, and the rendered document
RenderedPages ==
    {[url |-> <<>>, content |-> Document(TRUE, <<Title>>)],
     [url |-> <<Seg("guide")>>, content |-> Document(FALSE, <<>>)],
     [url |-> <<Seg("assets"), Seg("notes")>>, content |-> Document(TRUE, <<Title>>)]}

RECURSIVE CommonPrefix(_, _)
\* how many leading components two paths share
CommonPrefix(a, b) ==
    IF a = <<>> \/ b = <<>> \/ Head(a) # Head(b) THEN 0
    ELSE 1 + CommonPrefix(Tail(a), Tail(b))

\* normalize_url(path, page=page) for a relative path: '..' for every
\* component of the page's directory the path does not share, then the rest
normalize_url(path, url) ==
    LET common == CommonPrefix(url, path.parts)
    IN [ups |-> Len(url) - common,
        parts |-> SubSeq(path.parts, common + 1, Len(path.parts))]

\* BeautifulSoup(output_content, 'html.parser')
BeautifulSoup(c) == [hasHead |-> c.hasHead, head |-> c.head]

\* str(soup)
SoupStr(soup) == [raw |-> FALSE, hasHead |-> soup.hasHead, head |-> soup.head]

\* on_post_page writing relative_path itself into href
inject_site_relative(ep, c, url) ==
    IF ~Truthy(relative_path(ep))
    THEN [raised |-> FALSE, injected |-> FALSE, result |-> c]
    ELSE LET href == [ups |-> 0, parts |-> relative_path(ep).parts]
             soup == BeautifulSoup(c)
         IN IF ~soup.hasHead
            THEN [raised |-> TRUE, injected |-> FALSE, result |-> c]
            ELSE [raised |-> FALSE, injected |-> TRUE,
                  result |-> SoupStr([soup EXCEPT !.head = Append(@, Link(href))])]

\* on_post_page leaving out a link the head already holds
inject_deduplicated(ep, c, url) ==
    IF ~Truthy(relative_path(ep))
    THEN [raised |-> FALSE, injected |-> FALSE, result |-> c]
    ELSE LET href == normalize_url(relative_path(ep), url)
             soup == BeautifulSoup(c)
         IN IF ~soup.hasHead
            THEN [raised |-> TRUE, injected |-> FALSE, result |-> c]
            ELSE IF \E i \in 1..Len(soup.head) : soup.head[i] = Link(href)
            THEN [raised |-> FALSE, injected |-> TRUE, result |-> SoupStr(soup)]
            ELSE [raised |-> FALSE, injected |-> TRUE,
                  result |-> SoupStr([soup EXCEPT !.head = Append(@, Link(href))])]

\* the body of on_post_page once the entry point ep is at hand
inject(ep, c, url) ==
    IF ~Truthy(relative_path(ep))
    THEN [raised |-> FALSE, injected |-> FALSE, result |-> c]
    ELSE LET href == normalize_url(relative_path(ep), url)
             soup == BeautifulSoup(c)
         IN IF ~soup.hasHead
            THEN \* soup.head is None: AttributeError
                 [raised |-> TRUE, injected |-> FALSE, result |-> c]
            ELSE [raised |-> FALSE, injected |-> TRUE,
                  result |-> SoupStr([soup EXCEPT !.head = Append(@, Link(href))])]

----------------------------------------------------------------------------
(* Servers and the on_serve methods of the entries *)

\* the (server, builder) pairs the host calls on_serve with
ServeCalls == {[server |-> "server1", builder |-> "builder1"],
               [server |-> "server2", builder |-> "builder2"]}

\* on_serve watching the directory without looking for the source file
entry_on_serve_unchecked(e, fs, watched, builder) ==
    IF is_available(e)
    THEN watched \cup {[path |-> e.dirname, func |-> builder]}
    ELSE watched

\* on_serve watching only for an entry that was compiled
entry_on_serve_compiled_only(e, fs, watched, builder) ==
    IF is_available(e) /\ isfile(fs, e.filename) /\ Truthy(relative_path(e))
    THEN watched \cup {[path |-> e.dirname, func |-> builder]}
    ELSE watched

\* _SassEntry.on_serve and _AvailableSassEntry.on_serve: the watch
\* registrations of the server afterwards
entry_on_serve(e, fs, watched, builder) ==
    IF is_available(e) /\ isfile(fs, e.filename)
    THEN watched \cup {[path |-> e.dirname, func |-> builder]}
    ELSE watched

----------------------------------------------------------------------------
(* The plugin, its host and its environment *)

Configs == [strict : BOOLEAN]

\* the usual umask of a process
DefaultUmask == Oct(0, 2, 2)

\* the calls the host may have in flight at once
Threads == 1..MaxCalls

\* a thread of the host that is not inside a hook
Idle == [pc |-> "idle", first |-> FALSE, page |-> <<>>, built |-> None,
         injected |-> FALSE, result |-> <<>>]

\* the plugin after construction, with nothing compiled yet
Fresh ==
    /\ entry_point = None                  \* ExtraSassPlugin.__init__
    /\ config \in Configs
    /\ site = [k \in TempNames |-> NoFile]
    /\ searchCount = 0
    /\ saveCount = 0
    /\ failures = 0
    /\ prevPath = PyNone
    /\ last = [op |-> "init"]
    /\ threads = [t \in Threads |-> Idle]
    /\ linked = {}

\* the styles directories whose recognized names are regular files or free
PlainStyles ==
    {fs \in StylesStates :
        ~fs.others /\ \A n \in RecognizedNames : fs.files[n] # "dir"}

Init ==
    /\ Fresh
    /\ styles \in PlainStyles
    /\ umask = DefaultUmask

\* on_config that keeps the memoised entry
keep_entry(ep) == ep

\* the value on_config leaves in __entry_point
reset_entry(ep) == None

\* on_config(config): the host (re)loaded its configuration
on_config ==
    \E cfg \in Configs :
        /\ entry_point' = reset_entry(entry_point)
        /\ config' = cfg
        /\ searchCount' = 0
        /\ saveCount' = 0
        /\ failures' = 0
        /\ prevPath' = IF entry_point = None THEN PyNone
                       ELSE relative_path(entry_point)
        /\ last' = [op |-> "on_config"]
        /\ linked' = {}
        /\ UNCHANGED <<styles, site, umask, threads>>

\* the outcomes the environment can give the access that is about to run:
\* they matter only when the access computes an available entry
AccessInputs ==
    IF entry_point = None /\ is_available(search_entry_point(styles))
    THEN SaveInputs(site)
    ELSE {[k |-> 0, stage |-> "ok"]}

\* an access may compute the entry only MaxAttempts times in a cycle
MayAccess == entry_point # None \/ searchCount < MaxAttempts

\* what the host can hand to on_post_page: a rendered page, or the
\* document the previous on_post_page call returned, for the same page
PageInputs ==
    RenderedPages
    \cup (IF last.op = "on_post_page" /\ ~last.raised
             /\ Len(last.result.head) <= MaxHead
          THEN {[url |-> last.url, content |-> last.result]} ELSE {})

\* on_post_page(output_content, page, config)
on_post_page ==
    \E page \in PageInputs, inp \in AccessInputs :
      \E got \in {_entry_point(entry_point, config, styles, site, umask, inp)} :
        LET c == page.content
            url == page.url
            out == inject(got.entry, c, url)
        IN /\ MayAccess
           /\ entry_point' = got.memo
           /\ site' = got.site
           /\ umask' = got.umask
           /\ searchCount' = searchCount + got.searched
           /\ saveCount' = saveCount + got.saved
           /\ failures' = failures + (IF got.failed THEN 1 ELSE 0)
           /\ last' = IF got.raised
                      THEN [op |-> "on_post_page", raised |-> TRUE,
                            computed |-> got.searched = 1,
                            stage |-> IF got.saved = 1 THEN inp.stage ELSE "",
                            failed |-> got.failed, assertion |-> got.assertion,
                            entry |-> got.entry, content |-> c, url |-> url,
                            injected |-> FALSE, result |-> c]
                      ELSE [op |-> "on_post_page", raised |-> out.raised,
                            computed |-> got.searched = 1,
                            stage |-> IF got.saved = 1 THEN inp.stage ELSE "",
                            failed |-> got.failed, assertion |-> got.assertion,
                            entry |-> got.entry, content |-> c, url |-> url,
                            injected |-> out.injected, result |-> out.result]
           /\ linked' = IF ~got.raised /\ out.injected
                         THEN linked \cup
                              {[url |-> url,
                                href |-> out.result.head[Len(out.result.head)].href]}
                         ELSE linked
           /\ UNCHANGED <<config, styles, prevPath, threads>>

\* on_serve(server, config, builder): the server is new, nothing is watched
on_serve ==
    \E call \in ServeCalls, inp \in AccessInputs :
      \E got \in {_entry_point(entry_point, config, styles, site, umask, inp)} :
        LET server == call.server
            builder == call.builder
        IN /\ MayAccess
           /\ entry_point' = got.memo
           /\ site' = got.site
           /\ umask' = got.umask
           /\ searchCount' = searchCount + got.searched
           /\ saveCount' = saveCount + got.saved
           /\ failures' = failures + (IF got.failed THEN 1 ELSE 0)
           /\ last' = [op |-> "on_serve", raised |-> got.raised,
                       computed |-> got.searched = 1,
                            stage |-> IF got.saved = 1 THEN inp.stage ELSE "",
                       failed |-> got.failed, assertion |-> got.assertion,
                       entry |-> got.entry, server |-> server,
                       builder |-> builder,
                       ret |-> IF got.raised THEN "" ELSE server,
                       watched |-> IF got.raised THEN {}
                                   ELSE entry_on_serve(got.entry, styles, {},
                                                       builder)]
           /\ UNCHANGED <<config, styles, prevPath, threads, linked>>

\* the states one file-system operation of the user leads to: creating or
\* removing the styles directory, creating a regular file under a recognized
\* name that is free, or removing one
Edits(fs) ==
    IF ~fs.isdir
    THEN {[fs EXCEPT !.isdir = TRUE]}
    ELSE {[isdir |-> FALSE, files |-> [n \in RecognizedNames |-> "none"],
           others |-> FALSE]}
         \cup {[fs EXCEPT !.files[n] = "file"] :
                   n \in {m \in RecognizedNames : fs.files[m] = "none"}}
         \cup {[fs EXCEPT !.files[n] = "none"] :
                   n \in {m \in RecognizedNames : fs.files[m] = "file"}}

\* the user edits the styles directory between two calls of the host
EditStyles ==
    \E fs \in Edits(styles) :
        /\ styles' = fs
        /\ last' = [op |-> "edit"]
        /\ UNCHANGED <<entry_point, config, site, umask, searchCount,
                       saveCount, failures, prevPath, threads, linked>>

Next == on_config \/ on_post_page \/ on_serve \/ EditStyles

Spec == Init /\ [][Next]_vars

----------------------------------------------------------------------------
(* The locator on every state of the styles directory *)

InitLocate ==
    /\ Fresh
    /\ styles \in StylesStates
    /\ umask = DefaultUmask

NextLocate == on_post_page \/ on_serve

SpecLocate == InitLocate /\ [][NextLocate]_vars

----------------------------------------------------------------------------
(* The artifact writer under every umask *)

\* a styles directory holding one source
OneSource ==
    [isdir |-> TRUE,
     files |-> [n \in RecognizedNames |->
                   IF n = "style.scss" THEN "file" ELSE "none"],
     others |-> FALSE]

AllUmasks == 0..Oct(7, 7, 7)

InitUmask ==
    /\ Fresh
    /\ styles = OneSource
    /\ umask \in AllUmasks

\* one hook is enough to run save_to under each umask
NextUmask == on_serve

SpecUmask == InitUmask /\ [][NextUmask]_vars

----------------------------------------------------------------------------
(* on_post_page on several threads of the host, within one build cycle.   *)
(* A step is one statement of _entry_point; _build_entry runs as one step *)
(* (finer steps only add interleavings).  The threads' records, not last, *)
(* hold what the calls returned.                                          *)

\* thread t is inside _entry_point and has not yet stored or returned
Resolving(t) == threads[t].pc \in {"test", "build", "store"}

\* the host calls on_post_page(output_content, page, config) on thread t,
\* which enters _entry_point
Call(t) ==
    \E page \in RenderedPages :
        /\ threads[t].pc = "idle"
        /\ threads' = [threads EXCEPT ![t] =
               [Idle EXCEPT !.pc = "test", !.page = page,
                            !.first = \A u \in Threads : threads[u].pc = "idle"]]
        /\ UNCHANGED <<entry_point, config, styles, site, umask, searchCount,
                       saveCount, failures, prevPath, last, linked>>

\* if self.__entry_point is None:
TestEntry(t) ==
    /\ threads[t].pc = "test"
    /\ threads' = [threads EXCEPT ![t].pc =
                      IF entry_point = None THEN "build" ELSE "return"]
    /\ UNCHANGED <<entry_point, config, styles, site, umask, searchCount,
                   saveCount, failures, prevPath, last, linked>>

\* self._build_entry(config), the right-hand side of the assignment
BuildEntry(t) ==
    \E inp \in (IF is_available(search_entry_point(styles))
                THEN SaveInputs(site) ELSE {[k |-> 0, stage |-> "ok"]}) :
      \E got \in {_build_entry(config, styles, site, umask, inp)} :
        /\ threads[t].pc = "build"
        /\ threads' = [threads EXCEPT ![t].pc =
                                         IF got.raised THEN "raised" ELSE "store",
                                     ![t].built = got.entry]
        /\ site' = got.site
        /\ umask' = got.umask
        /\ searchCount' = searchCount + got.searched
        /\ saveCount' = saveCount + got.saved
        /\ failures' = failures + (IF got.failed THEN 1 ELSE 0)
        /\ UNCHANGED <<entry_point, config, styles, prevPath, last, linked>>

\* self.__entry_point = <the entry built>
StoreEntry(t) ==
    /\ threads[t].pc = "store"
    /\ entry_point' = threads[t].built
    /\ threads' = [threads EXCEPT ![t].pc = "return"]
    /\ UNCHANGED <<config, styles, site, umask, searchCount, saveCount,
                   failures, prevPath, last, linked>>

\* return self.__entry_point, and the rest of on_post_page on that entry
ReturnEntry(t) ==
    LET out == inject(entry_point, threads[t].page.content, threads[t].page.url)
    IN /\ threads[t].pc = "return"
       /\ threads' = [threads EXCEPT ![t].pc =
                                        IF out.raised THEN "raised" ELSE "done",
                                    ![t].injected = out.injected,
                                    ![t].result = out.result]
       /\ linked' = IF out.injected
                     THEN linked \cup
                          {[url |-> threads[t].page.url,
                            href |-> out.result.head[Len(out.result.head)].href]}
                     ELSE linked
       /\ UNCHANGED <<entry_point, config, styles, site, umask, searchCount,
                      saveCount, failures, prevPath, last>>

InitParallel == Init

NextParallel ==
    \E t \in Threads :
        Call(t) \/ TestEntry(t) \/ BuildEntry(t) \/ StoreEntry(t) \/ ReturnEntry(t)

SpecParallel == InitParallel /\ [][NextParallel]_vars

----------------------------------------------------------------------------
(* Memoisation and failure handling (checked under Spec) *)

IsHook == last.op \in {"on_post_page", "on_serve"}

\* the accesses of this cycle that raised: every strict-mode compile failure
Raises == IF config.strict THEN failures ELSE 0

Memoised == IF entry_point = None THEN 0 ELSE 1

C3_StrictPropagates ==
    /\ (IsHook /\ last.failed) => (last.raised <=> config.strict)
    /\ (IsHook /\ last.failed /\ config.strict) => (last.entry = None /\ entry_point = None)
    /\ (~config.strict /\ failures >= 1 /\ last.op = "on_post_page") =>
           (~last.raised /\ ~last.injected /\ last.result = last.content)
    /\ (~config.strict /\ failures >= 1 /\ last.op = "on_serve") => ~last.raised

\* C3 witness: strict is off, the compile failed in the compiler, and a later
\* page with a head was rendered in the same cycle.
C3_Witness ==
    /\ ~config.strict /\ failures = 1
    /\ last.op = "on_post_page" /\ ~last.computed /\ last.content.hasHead
    /\ \E k \in TempNames : site[k].css = "empty"

\* C3 second case reached: strict is on and the failure left the hook.
C3_StrictCase == IsHook /\ last.failed /\ last.raised /\ config.strict

\* C4: after on_config the next access searches again and, when a source is
\* available, compiles again: an entry is memoised only by a search of the
\* current cycle, an available one only after a save_to of the current
\* cycle, and a path recorded now differs from the one the previous cycle
\* recorded.
C4_ResetRecomputes ==
    /\ entry_point # None => searchCount >= 1
    /\ (entry_point # None /\ is_available(entry_point)) => saveCount >= 1
    /\ (IsHook /\ last.entry # None) => searchCount >= 1
    /\ (entry_point # None /\ Truthy(relative_path(entry_point)) /\ Truthy(prevPath)) =>
           relative_path(entry_point) # prevPath

\* C4 witness: the previous cycle recorded a path and this cycle compiled
\* again and recorded its own.
C4_Witness ==
    /\ Truthy(prevPath)
    /\ entry_point # None /\ Truthy(relative_path(entry_point))
    /\ searchCount = 1 /\ saveCount = 1

----------------------------------------------------------------------------
(* The locator (checked under SpecLocate, where the styles directory is any *)
(* of StylesStates and stays as it is)                                      *)

\* the priority order the locator is to follow
Priority == <<"style.css.sass", "style.sass", "style.css.scss", "style.scss">>

RegularFiles == {n \in RecognizedNames : styles.isdir /\ styles.files[n] = "file"}

\* C5: whenever one or more of the four recognized names are regular files
\* in the styles directory, the entry search_entry_point returned is
\* available, lies in 'extra_sass' and names the earliest regular file in
\* the order style.css.sass, style.sass, style.css.scss, style.scss; names
\* that exist without being regular files are passed over.
C5_EarliestRegularFile ==
    (entry_point # None /\ RegularFiles # {}) =>
        /\ is_available(entry_point)
        /\ entry_point.dirname = Seg("extra_sass")
        /\ \E i \in 1..Len(Priority) :
              /\ entry_point.filename = Priority[i]
              /\ Priority[i] \in RegularFiles
              /\ \A j \in 1..(i - 1) : Priority[j] \notin RegularFiles

\* C5 witness: two recognized names are regular files, an earlier one is a
\* directory, and the entry names the earlier of the two files.
C5_Witness ==
    /\ entry_point # None
    /\ styles.isdir
    /\ styles.files["style.css.sass"] = "dir"
    /\ styles.files["style.sass"] = "file"
    /\ styles.files["style.scss"] = "file"
    /\ entry_point.filename = "style.sass"

\* C6: when 'extra_sass' is not a directory, or none of the four recognized
\* names is a regular file in it, search_entry_point returns the unavailable
\* entry: is_available false and relative_path the empty string, whatever
\* else the directory holds.
C6_NothingToLocate ==
    (entry_point # None /\ RegularFiles = {}) =>
        /\ ~is_available(entry_point)
        /\ relative_path(entry_point) = PyStr(<<>>)
        /\ entry_point.kind = "NoEntry"
        /\ saveCount = 0

\* C6 witness: the directory exists and holds other files and a recognized
\* name that is a directory, and the entry is the unavailable one.
C6_Witness ==
    /\ entry_point # None
    /\ styles.isdir /\ styles.others
    /\ \E n \in RecognizedNames : styles.files[n] = "dir"
    /\ RegularFiles = {}

\* C6 second case reached: 'extra_sass' is not a directory.
C6_NoDirectory == entry_point # None /\ ~styles.isdir

----------------------------------------------------------------------------
(* Page injection (checked under Spec) *)

\* the stylesheet links among the children of a head
StylesheetLinks(head) ==
    {i \in 1..Len(head) : head[i].tag = "link" /\ head[i].rel = "stylesheet"}

\* the site-relative path a browser reaches from a page in directory url
\* through href: up href.ups directories, then down href.parts
ResolveHref(url, href) == SubSeq(url, 1, Len(url) - href.ups) \o href.parts

\* C7: on_post_page returns its input unchanged when the entry it resolved
\* has no relative path (no entry found, or the compile failed); otherwise,
\* for a page with a head, it returns the document with one more link
\* rel=stylesheet, appended as the last child of head after the children
\* that were there, whose href leads from the page to the compiled artifact.
C7_InjectOrUnchanged ==
    (last.op = "on_post_page" /\ last.entry # None) =>
        /\ ~Truthy(relative_path(last.entry)) =>
              (~last.raised /\ ~last.injected /\ last.result = last.content)
        /\ (Truthy(relative_path(last.entry)) /\ last.content.hasHead) =>
              LET before == last.content.head
                  after == last.result.head
              IN /\ ~last.raised /\ last.injected /\ last.result.hasHead
                 /\ Len(after) = Len(before) + 1
                 /\ SubSeq(after, 1, Len(before)) = before
                 /\ after[Len(after)].tag = "link"
                 /\ after[Len(after)].rel = "stylesheet"
                 /\ after[Len(after)].href.ups <= Len(last.url)
                 /\ ResolveHref(last.url, after[Len(after)].href)
                       = relative_path(last.entry).parts
                 /\ Cardinality(StylesheetLinks(after))
                       = Cardinality(StylesheetLinks(before)) + 1

\* C7 witness: a rendered page in a subdirectory got its link.
C7_Witness ==
    /\ last.op = "on_post_page" /\ last.injected /\ last.content.raw
    /\ last.url = <<Seg("assets"), Seg("notes")>>
    /\ Len(last.result.head) = 2

\* C7 other case reached: an available entry whose compile failed, and the
\* page returned as it came.
C7_Unchanged ==
    /\ last.op = "on_post_page" /\ last.entry # None
    /\ is_available(last.entry) /\ ~Truthy(relative_path(last.entry))
    /\ last.content.hasHead /\ last.result = last.content

----------------------------------------------------------------------------
(* Permissions (checked under SpecUmask, where the umask is any of          *)
(* AllUmasks)                                                               *)

\* bit i of x, bit 0 the lowest
HasBit(x, i) == (x \div (2 ^ i)) % 2 = 1

\* the read and write bits of owner, group and others: 0o666
ReadWriteBits == {1, 2, 4, 5, 7, 8}

\* C9: for every umask, every CSS file save_to has created, also one left
\* behind by a compile that failed after its creation, has exactly the read
\* and write bits the umask does not mask: 0o666 & ~umask.
C9_ModeFollowsUmask ==
    \A k \in TempNames :
        site[k].css # "absent" =>
            /\ site[k].mode \in 0..511
            /\ \A i \in 0..8 :
                  HasBit(site[k].mode, i) <=> (i \in ReadWriteBits /\ ~HasBit(umask, i))

\* C9 witness: under umask 0o022 the compiler failed, and the file it left
\* has mode 0o644, not the 0o600 of a temporary file.
C9_Witness ==
    /\ umask = Oct(0, 2, 2)
    /\ \E k \in TempNames :
          /\ site[k].css = "empty"
          /\ site[k].mode = Oct(6, 4, 4)

----------------------------------------------------------------------------
(* Serving (checked under Spec) *)

\* C10: an on_serve call that returns has resolved the entry point (it is
\* memoised), returns the server it was given, and has registered on that
\* server the watch of 'extra_sass' bound to the given builder exactly when
\* the entry is available and its source is a regular file at that time;
\* for the unavailable entry nothing is registered.
C10_WatchIffSourceExists ==
    (last.op = "on_serve" /\ ~last.raised) =>
        /\ last.ret = last.server
        /\ entry_point # None /\ last.entry = entry_point
        /\ last.watched =
              IF is_available(last.entry) /\ last.entry.filename \in RegularFiles
              THEN {[path |-> Seg("extra_sass"), func |-> last.builder]}
              ELSE {}
        /\ ~is_available(last.entry) => last.watched = {}

\* C10 witness: on_serve computed an available entry and registered the
\* watch of the styles directory.
C10_Witness ==
    /\ last.op = "on_serve" /\ ~last.raised /\ last.computed
    /\ is_available(last.entry)
    /\ last.watched = {[path |-> Seg("extra_sass"), func |-> last.builder]}

\* C10 other case reached: the entry is available, its source was removed
\* before on_serve, and nothing is watched.
C10_SourceGone ==
    /\ last.op = "on_serve" /\ ~last.raised
    /\ is_available(last.entry) /\ last.entry.filename \notin RegularFiles
    /\ last.watched = {}

----------------------------------------------------------------------------
(* Absence of a source (checked under Spec) *)

\* the hook call that has just returned resolved the unavailable entry
GotNoEntry == IsHook /\ last.entry # None /\ ~is_available(last.entry)

\* C11: a hook call that computes the entry while no recognized name is a
\* regular file, or that gets the memoised unavailable entry, never raises,
\* for either value of strict and also for a page without head; it does not
\* call save_to and leaves the output directory as it was; and no hook call
\* at all ends in the AssertionError of _SassEntry.save_to.
C11_AbsenceIsNoError ==
    [][/\ IsHook' => ~last'.assertion
       /\ (IsHook' /\ last'.computed /\ RegularFiles = {}) => GotNoEntry'
       /\ GotNoEntry' =>
             /\ ~last'.raised /\ ~last'.failed
             /\ saveCount' = saveCount
             /\ site' = site
             /\ umask' = umask
             /\ last'.op = "on_post_page" =>
                   (~last'.injected /\ last'.result = last'.content)
             /\ last'.op = "on_serve" =>
                   (last'.watched = {} /\ last'.ret = last'.server)]_vars

\* C11 witness: under strict, on_post_page computed the unavailable entry for
\* a page without head and returned it as it came.
C11_Witness ==
    /\ config.strict
    /\ last.op = "on_post_page" /\ last.computed /\ ~last.raised
    /\ last.entry # None /\ last.entry.kind = "NoEntry"
    /\ ~last.content.hasHead /\ last.result = last.content

----------------------------------------------------------------------------
(* The relative path and the files behind it (checked under Spec) *)

\* the temporary names whose CSS path is p
NamesOf(p) == {k \in TempNames : p = PyStr(<<Seg("assets"), Seg("stylesheets"), CssName(k)>>)}

\* C12: the relative path of an available entry is write-once. The memoised
\* entry, and so its relative path, stays as it is until the next on_config;
\* an available entry is memoised with a path only by the step whose save_to
\* succeeded, and then the path names the file that step created; an entry
\* memoised by a step whose save_to failed has the path unset (None).
C12_WriteOnce ==
    [][/\ (entry_point # None /\ last'.op # "on_config") => entry_point' = entry_point
       /\ (entry_point = None /\ entry_point' # None /\ is_available(entry_point')) =>
             /\ saveCount' = saveCount + 1
             /\ IF failures' = failures
                THEN /\ Truthy(relative_path(entry_point'))
                     /\ \E k \in NamesOf(relative_path(entry_point')) :
                           site[k].css = "absent" /\ site'[k].css = "written"
                ELSE relative_path(entry_point') = PyNone
       /\ (entry_point' # None /\ ~is_available(entry_point')) =>
             relative_path(entry_point') = PyStr(<<>>)]_vars

\* C12 witness: the path was recorded by an earlier call of the cycle and a
\* later on_post_page injected it, leaving the entry as it was.
C12_Witness ==
    /\ entry_point # None /\ Truthy(relative_path(entry_point))
    /\ last.op = "on_post_page" /\ ~last.computed /\ last.injected
    /\ last.entry = entry_point

Present(st) == {k \in TempNames : st[k].css # "absent"}

\* C14: over any number of cycles, a step changes the output directory only
\* by adding the file of one name that was not present: the name save_to
\* allocates differs from every file there, every file present stays, with
\* its content, its map and its mode, and the set of files only grows.
C14_OnlyGrows ==
    [][/\ Present(site) \subseteq Present(site')
       /\ \A k \in Present(site) : site'[k] = site[k]
       /\ Cardinality(Present(site') \ Present(site)) <= 1
       /\ saveCount' = saveCount => site' = site
       /\ \A k \in Present(site') \ Present(site) :
             /\ saveCount' = saveCount + 1
             /\ CssName(k).prefix = "extra-style." /\ CssName(k).suffix = ".min.css"
             /\ \A j \in Present(site) : CssName(j) # CssName(k)]_vars

\* C14 witness: a second cycle compiled into the directory that still holds
\* the artifact of the first.
C14_Witness ==
    /\ Truthy(prevPath)
    /\ entry_point # None /\ Truthy(relative_path(entry_point))
    /\ \A k \in NamesOf(prevPath) : site[k].css = "written" /\ site[k].map = "written"
    /\ Cardinality(Present(site)) = 2

----------------------------------------------------------------------------
(* Failures inside save_to (checked under Spec) *)

\* the file a step has added to the output directory, if any
Added == Present(site') \ Present(site)

\* C15: a save_to that fails in os.makedirs, in NamedTemporaryFile, in the
\* compiler or at the source map leaves the relative path unset and cleans
\* nothing up: the files present before stay; a failure before the
\* allocation adds nothing; a compiler failure leaves the new, empty CSS
\* file; a source-map failure leaves the written CSS file without a
\* complete map (none if the map could not be opened, a truncated one if
\* the write failed).
C15_NoCleanup ==
    [][(IsHook' /\ last'.failed) =>
          /\ last'.stage \in {"makedirs", "tempfile", "compile", "map_open", "map_write"}
          /\ failures' = failures + 1
          /\ last'.raised <=> config.strict
          /\ IF config.strict
             THEN entry_point' = None /\ last'.entry = None
             ELSE /\ entry_point' = last'.entry /\ is_available(entry_point')
                  /\ relative_path(entry_point') = PyNone
          /\ \A k \in Present(site) : site'[k] = site[k]
          /\ last'.stage \in {"makedirs", "tempfile"} => site' = site
          /\ last'.stage \in {"compile", "map_open", "map_write"} =>
                Cardinality(Added) = 1
          /\ \A k \in Added :
                /\ last'.stage = "compile" =>
                      (site'[k].css = "empty" /\ site'[k].map = "none")
                /\ last'.stage = "map_open" =>
                      (site'[k].css = "written" /\ site'[k].map = "none")
                /\ last'.stage = "map_write" =>
                      (site'[k].css = "written" /\ site'[k].map = "partial")]_vars

\* C15 witness: with strict off the map file could not be opened; the entry
\* is memoised without a path and the CSS file lies there without a map.
C15_Witness ==
    /\ IsHook /\ last.failed /\ last.stage = "map_open" /\ ~config.strict
    /\ entry_point # None /\ relative_path(entry_point) = PyNone
    /\ \E k \in TempNames : site[k].css = "written" /\ site[k].map = "none"

\* C15 other cases reached: the map was opened and its write failed; the
\* compiler failed; the allocation failed.
C15_TruncatedMap ==
    /\ IsHook /\ last.failed /\ last.stage = "map_write"
    /\ \E k \in TempNames : site[k].css = "written" /\ site[k].map = "partial"

C15_CompilerFailed ==
    /\ IsHook /\ last.failed /\ last.stage = "compile"
    /\ \E k \in TempNames : site[k].css = "empty"

C15_NothingAllocated ==
    /\ IsHook /\ last.failed /\ last.stage = "tempfile" /\ Present(site) = {}

----------------------------------------------------------------------------
(* Parallel page rendering (checked under SpecParallel) *)

\* C16: when on_post_page calls interleave within one cycle that starts
\* with nothing computed, save_to runs at most once, and no page is
\* injected while the first caller of _entry_point is still resolving.
C16_CompileOnceBeforeInjection ==
    /\ saveCount <= 1
    /\ \A t \in Threads :
          (threads[t].pc = "done" /\ threads[t].injected) =>
              \A u \in Threads : threads[u].first => ~Resolving(u)

\* C16, first half alone: save_to runs at most once
C16_CompileOnce == saveCount <= 1

\* C16, second half alone: the first resolution completes before any injection
C16_ResolvedBeforeInjection ==
    \A t \in Threads :
        (threads[t].pc = "done" /\ threads[t].injected) =>
            \A u \in Threads : threads[u].first => ~Resolving(u)

----------------------------------------------------------------------------
(* The links of one cycle (checked under Spec) *)

\* the site-relative paths the links injected in this cycle lead to
LinkedPaths == {ResolveHref(l.url, l.href) : l \in linked}

\* C17: when the host calls the hooks one after the other, all links
\* injected between two on_config calls lead to the same artifact: the
\* relative path of the entry memoised in this cycle.
C17_SameArtifact ==
    /\ Cardinality(LinkedPaths) <= 1
    /\ linked # {} =>
          (entry_point # None /\ LinkedPaths = {relative_path(entry_point).parts})

\* C17 witness: two different pages received a link in this cycle, with
\* different hrefs, and an earlier cycle had compiled another artifact.
C17_Witness ==
    /\ \E a, b \in linked : a.url # b.url /\ a.href # b.href
    /\ Truthy(prevPath) /\ prevPath # relative_path(entry_point)

----------------------------------------------------------------------------
(* The process umask (checked under SpecUmask) *)

\* C18: a hook that ran save_to leaves the process umask as it found it,
\* whether save_to returned or failed, before or after fix_umask ran on the
\* new file.
C18_UmaskRestored ==
    [][(IsHook' /\ saveCount' = saveCount + 1) =>
          /\ umask' = umask
          /\ last'.stage \in {"compile", "map_open", "map_write", "ok"} =>
                \E k \in Added :
                    site'[k].mode = BitAnd(Oct(6, 6, 6), BitNot(umask'), 9)]_vars

\* C18 witness: under umask 0o077 save_to failed at the compiler, after
\* fix_umask had run on the file it left behind, and the umask is 0o077.
C18_Witness ==
    /\ IsHook /\ last.failed /\ last.stage = "compile"
    /\ umask = Oct(0, 7, 7)
    /\ \E k \in Present(site) : site[k].css = "empty" /\ site[k].mode = Oct(6, 0, 0)

\* C18 other case reached: save_to returned under umask 0o027
C18_Success ==
    /\ IsHook /\ last.computed /\ ~last.failed /\ last.stage = "ok"
    /\ umask = Oct(0, 2, 7)
    /\ \E k \in Present(site) : site[k].css = "written" /\ site[k].mode = Oct(6, 4, 0)

----------------------------------------------------------------------------
(* Serving after a failed compile (checked under Spec) *)

\* C19: with strict off, an on_serve call in a cycle whose compile failed
\* returns on the memoised available entry, which has no relative path, and
\* registers the watch of 'extra_sass' exactly when the source is a regular
\* file at that time: the failed compile does not keep it from watching.
C19_WatchAfterFailure ==
    (last.op = "on_serve" /\ ~config.strict /\ failures >= 1) =>
        /\ ~last.raised /\ last.ret = last.server
        /\ entry_point # None /\ last.entry = entry_point
        /\ is_available(entry_point)
        /\ relative_path(entry_point) = PyNone
        /\ last.entry.filename \in RegularFiles =>
              last.watched = {[path |-> Seg("extra_sass"), func |-> last.builder]}
        /\ last.entry.filename \notin RegularFiles => last.watched = {}

\* C19 witness: with strict off the compile failed in an earlier call of
\* the cycle, and on_serve registered the watch on the memoised entry.
C19_Witness ==
    /\ last.op = "on_serve" /\ ~config.strict /\ failures = 1
    /\ ~last.computed /\ ~last.raised
    /\ relative_path(last.entry) = PyNone
    /\ last.watched = {[path |-> Seg("extra_sass"), func |-> last.builder]}

\* C19 other case reached: the compile failed inside on_serve itself, which
\* went on to register the watch.
C19_FailedInServe ==
    /\ last.op = "on_serve" /\ ~config.strict /\ last.failed /\ ~last.raised
    /\ last.watched = {[path |-> Seg("extra_sass"), func |-> last.builder]}

====
